---- MODULE Spec2Model ----
(***************************************************************************)
(* Model of the arXiv JSON-Lines loader: src/src/main.py (countLines,      *)
(* computeIterations, explodeColumn, toSQL, main) and src/src/db.py (DB).  *)
(*                                                                         *)
(* Data representation                                                     *)
(*   - a source line is a record [id, categories]; its other Document      *)
(*     fields are represented by one attribute, title, which is the line   *)
(*     number, so two lines never carry the same attribute values;         *)
(*   - a text is a TLA+ string (ids) or a sequence of one-character        *)
(*     strings (the categories field, which the code splits);              *)
(*   - a value of the "id" column of a DataFrame is [kind, text]: pandas   *)
(*     read_json infers the column's dtype per chunk, kind "int" when      *)
(*     every id of the chunk is a numeral, kind "str" otherwise;           *)
(*   - a relation is the sequence of its rows in insertion order.          *)
(***************************************************************************)
EXTENDS Integers, Sequences, FiniteSets, TLC

\* ---- bounds ----
MaxLen == 3
MaxChunk == 2
MaxRuns == 2
MaxCalls == 2

\* ---- value domains ----
Numerals == <<"0", "1", "2", "3", "4", "5", "6", "7", "8", "9">>

IdTexts == {"0", "1", "a"}

Fields == { <<"x">>, <<"x", " ", "y">>, <<"x", " ", " ", "y">> }

\* numpy.nan, the result of Index.max() on an empty index
NaN == -1

NoError == "none"

\* decimal text of a row label (labels stay below 10 in this model)
NumStr(n) == Numerals[n + 1]

IsNumeral(t) == \E n \in 1..Len(Numerals) : Numerals[n] = t

Range(s) == { s[i] : i \in 1..Len(s) }

SelectIdx(s, Keep(_)) ==
    LET F[i \in 0..Len(s)] ==
            IF i = 0 THEN <<>>
            ELSE IF Keep(i) THEN Append(F[i - 1], s[i]) ELSE F[i - 1]
    IN F[Len(s)]

\* ---- countLines, computeIterations ----
countLines(file) == Len(file)

\* ceil(lineCount / chunkSize), chunkSize >= 1
computeIterations(cs, lineCount) == (lineCount + cs - 1) \div cs

\* ---- Chunked reader: pandas.read_json(lines=True, chunksize=cs) ----
\* dtype inference of the id column of one chunk
InferKind(lines) ==
    IF \A i \in 1..Len(lines) : IsNumeral(lines[i].id) THEN "int" ELSE "str"

\* the chunk starting after nrows lines; row labels continue across chunks
ReadChunk(file, nrows, cs) ==
    LET last == IF nrows + cs < Len(file) THEN nrows + cs ELSE Len(file)
        lines == SubSeq(file, nrows + 1, last)
        kind == InferKind(lines)
    IN [ i \in 1..Len(lines) |->
            [ label |-> nrows + i - 1,
              id |-> [kind |-> kind, text |-> lines[i].id],
              categories |-> lines[i].categories,
              title |-> nrows + i - 1 ] ]

\* ---- Series.isin ----
\* id values against the keys of the dict uniqueIDs, which are row labels
IsinLabels(idval, labels) ==
    /\ idval.kind = "int"
    /\ \E l \in labels : NumStr(l) = idval.text

\* id values against keys read back from a TEXT column (always strings)
IsinTexts(idval, texts) ==
    /\ idval.kind = "str"
    /\ idval.text \in texts

\* _df[~_df["id"].isin(values=uniqueIDs)]
FilterSeen(rawdf, seen) ==
    SelectIdx(rawdf, LAMBDA i : ~IsinLabels(rawdf[i].id, DOMAIN seen))

\* variant: split on runs of spaces, as str.split() without argument does
SplitSpace_Runs(s) ==
    LET F[i \in 0..Len(s)] ==
            IF i = 0 THEN << <<>> >>
            ELSE IF s[i] = " "
                 THEN IF F[i - 1][Len(F[i - 1])] = <<>> THEN F[i - 1]
                      ELSE Append(F[i - 1], <<>>)
                 ELSE [F[i - 1] EXCEPT ![Len(F[i - 1])] = Append(@, s[i])]
    IN F[Len(s)]

\* ---- explodeColumn ----
\* str.split(" "): pieces between single spaces, empty pieces kept
SplitSpace(s) ==
    LET F[i \in 0..Len(s)] ==
            IF i = 0 THEN << <<>> >>
            ELSE IF s[i] = " " THEN Append(F[i - 1], <<>>)
                 ELSE [F[i - 1] EXCEPT ![Len(F[i - 1])] = Append(@, s[i])]
    IN F[Len(s)]

\* one row per piece, in row order then piece order; index 0..n-1
explodeColumn(frame) ==
    LET F[i \in 0..Len(frame)] ==
            IF i = 0 THEN <<>>
            ELSE LET pieces == SplitSpace(frame[i].categories)
                 IN F[i - 1] \o [ j \in 1..Len(pieces) |->
                        [ index |-> Len(F[i - 1]) + j - 1,
                          arxiv_id |-> frame[i].id,
                          category |-> pieces[j] ] ]
    IN F[Len(frame)]

\* categoriesDF.index += previousCategoriesDFMaxIndex
AddOffset(i, off) == IF off = NaN THEN NaN ELSE i + off

ShiftIndex(cdf, off) ==
    [ i \in 1..Len(cdf) |-> [cdf[i] EXCEPT !.index = AddOffset(@, off)] ]

\* variant: the offset is the maximum itself, not one past it
IndexMaxPlusOne_NoIncrement(cdf) ==
    IF cdf = <<>> \/ \E i \in 1..Len(cdf) : cdf[i].index = NaN THEN NaN
    ELSE cdf[Len(cdf)].index

\* categoriesDF.index.max() + 1
IndexMaxPlusOne(cdf) ==
    IF cdf = <<>> \/ \E i \in 1..Len(cdf) : cdf[i].index = NaN THEN NaN
    ELSE cdf[Len(cdf)].index + 1

\* df.drop(columns=["categories", "versions", "authors_parsed"])
DropColumns(frame) ==
    [ i \in 1..Len(frame) |->
        [ label |-> frame[i].label, id |-> frame[i].id, title |-> frame[i].title ] ]

\* ---- the store (SQLite through SQLAlchemy) ----
\* NaN reaches the store as NULL
SqlNull == NaN

Keys(rel) == { rel[i].id : i \in 1..Len(rel) }

MaxKey(rel) ==
    IF rel = <<>> THEN 0
    ELSE CHOOSE k \in Keys(rel) : \A m \in Keys(rel) : m <= k

\* variant: a table without PRIMARY KEY constraint
InsertRows_NoConstraint(rel, rows, integerKey) ==
    LET F[i \in 0..Len(rows)] ==
            IF i = 0 THEN [ok |-> TRUE, rel |-> rel]
            ELSE LET p == F[i - 1]
                     key == IF integerKey /\ rows[i].id = SqlNull
                            THEN MaxKey(p.rel) + 1
                            ELSE rows[i].id
                 IN [ok |-> TRUE,
                     rel |-> Append(p.rel, [rows[i] EXCEPT !.id = key])]
    IN F[Len(rows)]

\* One INSERT of many rows in one transaction.  A NULL key of the INTEGER
\* PRIMARY KEY column takes the next rowid, a key already present violates
\* the PRIMARY KEY constraint and the transaction is rolled back.
InsertRows(rel, rows, integerKey) ==
    LET F[i \in 0..Len(rows)] ==
            IF i = 0 THEN [ok |-> TRUE, rel |-> rel]
            ELSE LET p == F[i - 1]
                     key == IF integerKey /\ rows[i].id = SqlNull
                            THEN MaxKey(p.rel) + 1
                            ELSE rows[i].id
                 IN IF ~p.ok THEN p
                    ELSE IF key \in Keys(p.rel) THEN [ok |-> FALSE, rel |-> rel]
                    ELSE [ok |-> TRUE,
                          rel |-> Append(p.rel, [rows[i] EXCEPT !.id = key])]
    IN F[Len(rows)]

\* the rows DataFrame.to_sql sends: the id column of documents has TEXT
\* affinity, so a number is stored as its text; the index of a categories
\* frame is sent as column id only when index=True
SqlRows(table, frame, index) ==
    IF table = "documents"
    THEN [ i \in 1..Len(frame) |->
            [ id |-> frame[i].id.text, title |-> frame[i].title ] ]
    ELSE [ i \in 1..Len(frame) |->
            [ id |-> IF index THEN frame[i].index ELSE SqlNull,
              arxiv_id |-> frame[i].arxiv_id.text,
              category |-> frame[i].category ] ]

\* df.to_sql(name=table, con=db.engine, if_exists="append", index=index)
to_sql(table, frame, index, store) ==
    LET r == InsertRows(store[table], SqlRows(table, frame, index),
                        table = "categories")
    IN [ok |-> r.ok, store |-> [store EXCEPT ![table] = r.rel]]

\* a documents frame has a column "id"; in a categories frame "id" is only
\* the name of the index, so df["id"] raises KeyError
HasIdColumn(table) == table = "documents"

\* variant: the filter also drops the later rows of an id the batch repeats
FilterExisting_Dedup(frame, existing) ==
    SelectIdx(frame, LAMBDA i :
        /\ ~IsinTexts(frame[i].id, existing)
        /\ \A j \in 1..(i - 1) : frame[j].id # frame[i].id)

\* df[~df["id"].isin(values=existingSQLKeysDF["id"])]
FilterExisting(frame, existing) ==
    SelectIdx(frame, LAMBDA i : ~IsinTexts(frame[i].id, existing))

\* variant: no except clause, the first conflict is raised
toSQL_NoRetry(table, frame, store, includeIndex) ==
    LET first == to_sql(table, frame, includeIndex, store)
    IN IF first.ok
       THEN [store |-> first.store, err |-> NoError, attempts |-> <<"ok">>]
       ELSE [store |-> store, err |-> "IntegrityError",
             attempts |-> <<"conflict">>]

\* variant: a conflict of the second append is swallowed
toSQL_Swallow(table, frame, store, includeIndex) ==
    LET first == to_sql(table, frame, includeIndex, store)
    IN IF first.ok
       THEN [store |-> first.store, err |-> NoError, attempts |-> <<"ok">>]
       ELSE IF ~HasIdColumn(table)
       THEN [store |-> store, err |-> "KeyError", attempts |-> <<"conflict">>]
       ELSE LET existingSQLKeys == Keys(store[table])
                uniqueKeysDF == FilterExisting(frame, existingSQLKeys)
                second == to_sql(table, uniqueKeysDF, FALSE, store)
            IN IF second.ok
               THEN [store |-> second.store, err |-> NoError,
                     attempts |-> <<"conflict", "ok">>]
               ELSE [store |-> store, err |-> NoError,
                     attempts |-> <<"conflict", "conflict">>]

\* toSQL: result store, error raised (or none) and the outcome of each
\* append attempt in order
toSQL(table, frame, store, includeIndex) ==
    LET first == to_sql(table, frame, includeIndex, store)
    IN IF first.ok
       THEN [store |-> first.store, err |-> NoError, attempts |-> <<"ok">>]
       ELSE IF ~HasIdColumn(table)
       THEN [store |-> store, err |-> "KeyError", attempts |-> <<"conflict">>]
       ELSE LET existingSQLKeys == Keys(store[table])
                uniqueKeysDF == FilterExisting(frame, existingSQLKeys)
                second == to_sql(table, uniqueKeysDF, FALSE, store)
            IN IF second.ok
               THEN [store |-> second.store, err |-> NoError,
                     attempts |-> <<"conflict", "ok">>]
               ELSE [store |-> store, err |-> "IntegrityError",
                     attempts |-> <<"conflict", "conflict">>]

\* ---- DB.createTables: metadata.create_all(checkfirst=True) ----
EmptyStore == [documents |-> <<>>, categories |-> <<>>]

TableNames == {"documents", "categories"}

\* Table("documents", self.metadata, ...), Table("categories", ...):
\* SQLAlchemy refuses to define, with columns, a table that the MetaData
\* instance already holds
DefineTables(md) ==
    IF md \cap TableNames # {}
    THEN [err |-> "InvalidRequestError", metadata |-> md]
    ELSE [err |-> NoError, metadata |-> md \cup TableNames]

\* metadata.create_all(checkfirst=True):
\* a table is created only when it is not there yet
createTables(tabs, store) ==
    [ t \in TableNames |-> IF t \in tabs THEN store[t] ELSE <<>> ]

\* ---- state ----
VARIABLES
    source,       \* the lines of the input file
    inputExists,  \* isFile(absInputPath)
    chunkSize,    \* --chunksize
    dbFile,       \* isFile(absOutputPath)
    tables,       \* the tables the output database defines
    metadata,     \* DB.metadata: the tables defined on the DB object
    store,        \* the rows of documents and of categories
    pc,           \* position of main
    run,          \* number of the current invocation of main
    err,          \* the exception that ended main, if any
    uniqueIDs,    \* main: the dict uniqueIDs
    previousCategoriesDFMaxIndex,
    nrowsSeen,    \* JsonReader: lines consumed
    iterationCount,
    bar,          \* progress bar position
    df,           \* main: df (the filtered chunk)
    categoriesDF, \* main: categoriesDF
    lastCall,     \* the latest call of toSQL: table, store before, result
    prev,         \* how the previous invocation ended and the store it left
    calls         \* number of toSQL calls made directly (writer harness)

vars == << source, inputExists, chunkSize, dbFile, tables, metadata, store, pc,
           run, err,
           uniqueIDs, previousCategoriesDFMaxIndex, nrowsSeen, iterationCount,
           bar, df, categoriesDF, lastCall, prev, calls >>

Lines == [id : IdTexts, categories : Fields]

SeqsUpTo(S, n) == UNION { [1..k -> S] : k \in 0..n }

NoCall == [table |-> "none", before |-> EmptyStore, err |-> NoError,
           attempts |-> <<>>]

NoPrev == [pc |-> "none", store |-> EmptyStore]

Call(table, before, r) ==
    [table |-> table, before |-> before, err |-> r.err, attempts |-> r.attempts]

Init ==
    /\ inputExists \in BOOLEAN
    /\ source \in (IF inputExists THEN SeqsUpTo(Lines, MaxLen) ELSE {<<>>})
    /\ chunkSize \in 0..MaxChunk
    /\ dbFile = FALSE
    /\ tables = {}
    /\ metadata = {}
    /\ store = EmptyStore
    /\ pc = "start"
    /\ run = 1
    /\ err = NoError
    /\ uniqueIDs = <<>>
    /\ previousCategoriesDFMaxIndex = 0
    /\ nrowsSeen = 0
    /\ iterationCount = 0
    /\ bar = 0
    /\ df = <<>>
    /\ categoriesDF = <<>>
    /\ lastCall = NoCall
    /\ prev = NoPrev
    /\ calls = 0

inputs == << source, inputExists, chunkSize >>
locals == << uniqueIDs, previousCategoriesDFMaxIndex, nrowsSeen, iterationCount,
             bar, df, categoriesDF >>

Abort(e) ==
    /\ pc' = "aborted"
    /\ err' = e

\* variant: the database is created before the chunk size is checked
Start_CreateFirst ==
    /\ pc = "start"
    /\ IF ~inputExists THEN
            /\ Abort("FileNotFoundError")
            /\ UNCHANGED << dbFile, tables, metadata, store, uniqueIDs,
                            previousCategoriesDFMaxIndex >>
       ELSE IF dbFile THEN
            /\ Abort("FileExistsError")
            /\ UNCHANGED << dbFile, tables, metadata, store, uniqueIDs,
                            previousCategoriesDFMaxIndex >>
       ELSE /\ uniqueIDs' = <<>>
            /\ previousCategoriesDFMaxIndex' = 0
            /\ dbFile' = TRUE
            /\ metadata' = DefineTables({}).metadata
            /\ store' = createTables(tables, store)
            /\ tables' = TableNames
            /\ IF chunkSize < 1 THEN Abort("ValueError")
               ELSE pc' = "scan" /\ err' = NoError
    /\ UNCHANGED << inputs, run, nrowsSeen, iterationCount, bar, df,
                    categoriesDF, lastCall, prev, calls >>

\* variant: the output path is not checked
Start_NoExistsCheck ==
    /\ pc = "start"
    /\ IF ~inputExists THEN
            /\ Abort("FileNotFoundError")
            /\ UNCHANGED << dbFile, tables, metadata, store, uniqueIDs,
                            previousCategoriesDFMaxIndex >>
       ELSE IF chunkSize < 1 THEN
            /\ Abort("ValueError")
            /\ UNCHANGED << dbFile, tables, metadata, store, uniqueIDs,
                            previousCategoriesDFMaxIndex >>
       ELSE /\ uniqueIDs' = <<>>
            /\ previousCategoriesDFMaxIndex' = 0
            /\ dbFile' = TRUE
            /\ metadata' = DefineTables({}).metadata
            /\ store' = createTables(tables, store)
            /\ tables' = TableNames
            /\ pc' = "scan"
            /\ err' = NoError
    /\ UNCHANGED << inputs, run, nrowsSeen, iterationCount, bar, df,
                    categoriesDF, lastCall, prev, calls >>

\* main, lines 229-245: path checks, run state, DB and createTables
Start ==
    /\ pc = "start"
    /\ IF ~inputExists THEN
            /\ Abort("FileNotFoundError")
            /\ UNCHANGED << dbFile, tables, metadata, store, uniqueIDs,
                            previousCategoriesDFMaxIndex >>
       ELSE IF dbFile THEN
            /\ Abort("FileExistsError")
            /\ UNCHANGED << dbFile, tables, metadata, store, uniqueIDs,
                            previousCategoriesDFMaxIndex >>
       ELSE IF chunkSize < 1 THEN
            /\ Abort("ValueError")
            /\ UNCHANGED << dbFile, tables, metadata, store, uniqueIDs,
                            previousCategoriesDFMaxIndex >>
       ELSE /\ uniqueIDs' = <<>>
            /\ previousCategoriesDFMaxIndex' = 0
            /\ dbFile' = TRUE
            /\ metadata' = DefineTables({}).metadata
            /\ store' = createTables(tables, store)
            /\ tables' = TableNames
            /\ pc' = "scan"
            /\ err' = NoError
    /\ UNCHANGED << inputs, run, nrowsSeen, iterationCount, bar, df,
                    categoriesDF, lastCall, prev, calls >>

\* main, lines 247-259: line count, iteration count, reader, progress bar
Scan ==
    /\ pc = "scan"
    /\ iterationCount' = computeIterations(chunkSize, countLines(source))
    /\ nrowsSeen' = 0
    /\ bar' = 0
    /\ pc' = "loop"
    /\ UNCHANGED << inputs, metadata, dbFile, tables, store, run, err, uniqueIDs,
                    previousCategoriesDFMaxIndex, df, categoriesDF, lastCall,
                    prev, calls >>

\* main, lines 261-262: the reader yields the next chunk, main filters it
Fetch ==
    /\ pc = "loop"
    /\ nrowsSeen < Len(source)
    /\ LET rawdf == ReadChunk(source, nrowsSeen, chunkSize)
       IN /\ nrowsSeen' = nrowsSeen + Len(rawdf)
          /\ df' = FilterSeen(rawdf, uniqueIDs)
    /\ pc' = "transform"
    /\ UNCHANGED << inputs, metadata, dbFile, tables, store, run, err, uniqueIDs,
                    previousCategoriesDFMaxIndex, iterationCount, bar,
                    categoriesDF, lastCall, prev, calls >>

\* variant: the end of the loop fails when no chunk was processed
Finish_NeedsChunk ==
    /\ pc = "loop"
    /\ nrowsSeen >= Len(source)
    /\ IF bar = 0 THEN Abort("ValueError") ELSE pc' = "done" /\ err' = err
    /\ UNCHANGED << inputs, metadata, dbFile, tables, store, run, locals,
                    lastCall, prev, calls >>

\* variant: the loop ends as soon as at most one chunk is left
Finish_Early ==
    /\ pc = "loop"
    /\ nrowsSeen + chunkSize >= Len(source)
    /\ pc' = "done"
    /\ UNCHANGED << inputs, metadata, dbFile, tables, store, run, err, locals, lastCall,
                    prev, calls >>

\* main, line 261: the reader is exhausted, the loop and main end
Finish ==
    /\ pc = "loop"
    /\ nrowsSeen >= Len(source)
    /\ pc' = "done"
    /\ UNCHANGED << inputs, metadata, dbFile, tables, store, run, err, locals, lastCall,
                    prev, calls >>

\* main, lines 264-286: categoriesDF is built, df loses three columns
Transform ==
    /\ pc = "transform"
    /\ categoriesDF' = ShiftIndex(explodeColumn(df), previousCategoriesDFMaxIndex)
    /\ df' = DropColumns(df)
    /\ pc' = "writeDocs"
    /\ UNCHANGED << inputs, metadata, dbFile, tables, store, run, err, uniqueIDs,
                    previousCategoriesDFMaxIndex, nrowsSeen, iterationCount,
                    bar, lastCall, prev, calls >>

\* variant: main goes on to the categories after a failed Document write
WriteDocuments_Continue ==
    /\ pc = "writeDocs"
    /\ LET r == toSQL("documents", df, store, FALSE)
       IN /\ store' = r.store
          /\ lastCall' = Call("documents", store, r)
          /\ pc' = "writeCats"
          /\ err' = err
    /\ UNCHANGED << inputs, metadata, dbFile, tables, run, locals, prev, calls >>

\* main, line 288: toSQL(table="documents", df=df, db=db)
WriteDocuments ==
    /\ pc = "writeDocs"
    /\ LET r == toSQL("documents", df, store, FALSE)
       IN /\ store' = r.store
          /\ lastCall' = Call("documents", store, r)
          /\ IF r.err = NoError
             THEN pc' = "writeCats" /\ err' = err
             ELSE Abort(r.err)
    /\ UNCHANGED << inputs, metadata, dbFile, tables, run, locals, prev, calls >>

\* main, lines 289-294: toSQL(table="categories", ..., includeIndex=True)
WriteCategories ==
    /\ pc = "writeCats"
    /\ LET r == toSQL("categories", categoriesDF, store, TRUE)
       IN /\ store' = r.store
          /\ lastCall' = Call("categories", store, r)
          /\ IF r.err = NoError
             THEN pc' = "update" /\ err' = err
             ELSE Abort(r.err)
    /\ UNCHANGED << inputs, metadata, dbFile, tables, run, locals, prev, calls >>

\* uniqueIDs |= df["id"]: dict.update over the Series, whose keys() are its
\* row labels; each label is mapped to the id of its row
DictUpdate(d, frame) ==
    LET labels == { frame[i].label : i \in 1..Len(frame) }
    IN [ l \in (DOMAIN d) \cup labels |->
            IF l \in labels
            THEN frame[CHOOSE i \in 1..Len(frame) : frame[i].label = l].id
            ELSE d[l] ]

\* main, lines 296-299
Update ==
    /\ pc = "update"
    /\ uniqueIDs' = DictUpdate(uniqueIDs, df)
    /\ previousCategoriesDFMaxIndex' = IndexMaxPlusOne(categoriesDF)
    /\ bar' = bar + 1
    /\ pc' = "loop"
    /\ UNCHANGED << inputs, metadata, dbFile, tables, store, run, err, nrowsSeen,
                    iterationCount, df, categoriesDF, lastCall, prev, calls >>

\* main is invoked again with the same arguments; nothing but the output
\* file survives the previous process
Rerun ==
    /\ pc \in {"done", "aborted"}
    /\ run < MaxRuns
    /\ run' = run + 1
    /\ prev' = [pc |-> pc, store |-> store]
    /\ pc' = "start"
    /\ err' = NoError
    /\ uniqueIDs' = <<>>
    /\ previousCategoriesDFMaxIndex' = 0
    /\ nrowsSeen' = 0
    /\ iterationCount' = 0
    /\ bar' = 0
    /\ df' = <<>>
    /\ categoriesDF' = <<>>
    /\ lastCall' = NoCall
    /\ metadata' = {}
    /\ UNCHANGED << inputs, dbFile, tables, store, calls >>

Next ==
    \/ Start
    \/ Scan
    \/ Fetch
    \/ Finish
    \/ Transform
    \/ WriteDocuments
    \/ WriteCategories
    \/ Update
    \/ Rerun

Spec == Init /\ [][Next]_vars

\* the steps of main; the process runs until main returns or raises
MainStep ==
    \/ Start
    \/ Scan
    \/ Fetch
    \/ Finish
    \/ Transform
    \/ WriteDocuments
    \/ WriteCategories
    \/ Update

\* the runs checked for termination: every id, one categories field (the
\* control flow of main does not depend on the tags)
FairLines == [id : IdTexts, categories : { <<"x">> }]

InitFair ==
    /\ Init
    /\ source \in SeqsUpTo(FairLines, MaxLen)

FairSpec == InitFair /\ [][Next]_vars /\ WF_vars(MainStep)

TypeOK ==
    /\ pc \in {"start", "scan", "loop", "transform", "writeDocs", "writeCats",
               "update", "done", "aborted", "harness"}
    /\ run \in 1..MaxRuns

Documents == store.documents

Categories == store.categories

\* ---- writer harness: toSQL called directly, any batch, any number of times
\* a number, the same numeral read as text, and a text that is no numeral
IdValues ==
    { [kind |-> "int", text |-> "1"] }
        \cup { [kind |-> "str", text |-> t] : t \in {"1", "a"} }

SameKind(f) == \A i, j \in 1..Len(f) : f[i].kind = f[j].kind

\* frames of at most MaxChunk rows whose id column has one dtype
IdColumns == { f \in SeqsUpTo(IdValues, MaxChunk) : SameKind(f) }

DocFrame(ids, n) ==
    [ i \in 1..Len(ids) |-> [label |-> i - 1, id |-> ids[i], title |-> n] ]

CatFrame(ids, off) ==
    [ i \in 1..Len(ids) |->
        [index |-> AddOffset(i - 1, off), arxiv_id |-> ids[i],
         category |-> <<"x">>] ]

InitToSQL ==
    /\ inputExists = TRUE
    /\ source = <<>>
    /\ chunkSize = 1
    /\ dbFile = TRUE
    /\ tables = TableNames
    /\ metadata = TableNames
    /\ store = createTables({}, EmptyStore)
    /\ pc = "harness"
    /\ run = 1
    /\ err = NoError
    /\ uniqueIDs = <<>>
    /\ previousCategoriesDFMaxIndex = 0
    /\ nrowsSeen = 0
    /\ iterationCount = 0
    /\ bar = 0
    /\ df = <<>>
    /\ categoriesDF = <<>>
    /\ lastCall = NoCall
    /\ prev = NoPrev
    /\ calls = 0

\* toSQL(table="documents", df=frame, db=db)
AppendDocuments ==
    /\ pc = "harness"
    /\ calls < MaxCalls
    /\ \E ids \in IdColumns :
        LET frame == DocFrame(ids, calls)
            r == toSQL("documents", frame, store, FALSE)
        IN /\ df' = frame
           /\ store' = r.store
           /\ err' = r.err
           /\ lastCall' = Call("documents", store, r)
    /\ calls' = calls + 1
    /\ UNCHANGED << inputs, metadata, dbFile, tables, pc, run, uniqueIDs,
                    previousCategoriesDFMaxIndex, nrowsSeen, iterationCount,
                    bar, categoriesDF, prev >>

\* toSQL(table="categories", df=frame, db=db, includeIndex=True)
AppendCategories ==
    /\ pc = "harness"
    /\ calls < MaxCalls
    /\ \E ids \in IdColumns, off \in {NaN, 0, MaxKey(Categories) + 1} :
        LET frame == CatFrame(ids, off)
            r == toSQL("categories", frame, store, TRUE)
        IN /\ categoriesDF' = frame
           /\ store' = r.store
           /\ err' = r.err
           /\ lastCall' = Call("categories", store, r)
    /\ calls' = calls + 1
    /\ UNCHANGED << inputs, metadata, dbFile, tables, pc, run, uniqueIDs,
                    previousCategoriesDFMaxIndex, nrowsSeen, iterationCount,
                    bar, df, prev >>

NextToSQL ==
    \/ AppendDocuments
    \/ AppendCategories

SpecToSQL == InitToSQL /\ [][NextToSQL]_vars

\* ---- properties ----
UniqueKeys(rel) == \A i, j \in 1..Len(rel) : rel[i].id = rel[j].id => i = j

IsPrefix(s, t) == Len(s) <= Len(t) /\ \A i \in 1..Len(s) : s[i] = t[i]

Sum(f, n) ==
    LET F[i \in 0..n] == IF i = 0 THEN 0 ELSE F[i - 1] + f[i]
    IN F[n]

\* first line (1-based) of the chunk being processed
ChunkStart == ((nrowsSeen - 1) \div chunkSize) * chunkSize + 1

\* the chunk being processed holds the same id on two lines
ChunkHasTwin ==
    \E i, j \in ChunkStart..nrowsSeen : i # j /\ source[i].id = source[j].id

CatRowsOf(t) == Len(SelectSeq(Categories, LAMBDA c : c.arxiv_id = t))

\* C1: a record whose id was already processed in an earlier batch is
\* dropped silently: the Category rows of an id are those of the one line
\* stored as its Document, and the run does not fail with a conflict unless
\* the chunk itself holds an id twice.
C1_DuplicateDropped ==
    run = 1 =>
        /\ \A d \in Range(Documents) :
              CatRowsOf(d.id) <= Len(SplitSpace(source[d.title + 1].categories))
        /\ (pc = "aborted" /\ err = "IntegrityError") => ChunkHasTwin

\* C2: surrogate keys of Category rows are strictly increasing in emission
\* order and never used twice, whatever the batch boundaries: the stored
\* keys increase in insertion order and every key a batch is about to write
\* is greater than every stored key.
C2_SurrogateKeysIncrease ==
    /\ \A i, j \in 1..Len(Categories) :
          i < j => Categories[i].id < Categories[j].id
    /\ pc = "writeCats" =>
          \A i \in 1..Len(categoriesDF) :
              categoriesDF[i].index # NaN =>
                  \A k \in Keys(Categories) : categoriesDF[i].index > k

C2_Witness ==
    /\ pc = "done"
    /\ bar >= 2
    /\ Len(Categories) >= 3
    /\ lastCall.table = "categories"
    /\ Len(lastCall.before.categories) \in 1..(Len(Categories) - 1)

\* C3: in every reachable state of a run every Category row's arxiv_id is
\* the id of exactly one Document row.
C3_ReferentialIntegrity ==
    \A c \in Range(Categories) :
        Cardinality({ i \in 1..Len(Documents) : Documents[i].id = c.arxiv_id }) = 1

C3_Witness ==
    /\ pc = "aborted"
    /\ err = "IntegrityError"
    /\ Categories # <<>>

\* C4 (as claimed): a second complete load with the same source against the
\* same destination completes without error and leaves the rows of a single
\* complete run, without duplicate keys.
C4_RerunCompletes ==
    (run = 2 /\ inputExists /\ chunkSize >= 1 /\ pc \in {"done", "aborted"}) =>
        /\ pc = "done"
        /\ err = NoError
        /\ UniqueKeys(Documents) /\ UniqueKeys(Categories)
        /\ prev.pc = "done" => store = prev.store

\* C4 (amended): a load started against a destination that an earlier run
\* created does not complete: it fails with FileExistsError before any
\* write, and both relations keep exactly the rows the earlier run left,
\* without duplicate keys.
C4_RerunRejected ==
    (run >= 2 /\ dbFile /\ pc # "start") =>
        /\ pc = "aborted"
        /\ err = "FileExistsError"
        /\ store = prev.store
        /\ UniqueKeys(Documents) /\ UniqueKeys(Categories)

C4_Witness ==
    /\ run = 2
    /\ pc = "aborted"
    /\ err = "FileExistsError"
    /\ prev.pc = "aborted"
    /\ Documents # <<>>

\* C5: one call of toSQL makes at most two append attempts, the second only
\* after the first failed with a primary-key conflict, and it raises
\* IntegrityError only when the second attempt failed too.
C5_AtMostOneRetry ==
    lastCall.table # "none" =>
        /\ Len(lastCall.attempts) \in 1..2
        /\ Len(lastCall.attempts) = 2 => lastCall.attempts[1] = "conflict"
        /\ lastCall.err = "IntegrityError" =>
              /\ Len(lastCall.attempts) = 2
              /\ lastCall.attempts[2] = "conflict"
        /\ lastCall.err = NoError =>
              lastCall.attempts[Len(lastCall.attempts)] = "ok"

C5_Witness ==
    /\ lastCall.table = "documents"
    /\ lastCall.err = "IntegrityError"
    /\ lastCall.attempts = <<"conflict", "conflict">>
    /\ lastCall.before.documents # <<>>

\* C6: a stored row is never changed, removed or joined by a second row
\* with its key: every step keeps each relation as a prefix of its next
\* value, and no relation ever holds a key twice.
C6_StoredRowsStay ==
    [][ /\ IsPrefix(Documents, Documents')
        /\ IsPrefix(Categories, Categories')
        /\ UniqueKeys(Documents')
        /\ UniqueKeys(Categories') ]_vars

\* an append that carried a key already stored, with other attribute values
C6_Witness ==
    /\ lastCall.table = "documents"
    /\ lastCall.attempts = <<"conflict", "ok">>
    /\ \E i \in 1..Len(df) :
          /\ df[i].id.text \in Keys(lastCall.before.documents)
          /\ \E d \in Range(Documents) :
                d.id = df[i].id.text /\ d.title # df[i].title
    /\ Len(Documents) > Len(lastCall.before.documents)

\* str.split(): the non-empty pieces between runs of spaces
SplitWhitespace(s) == SelectSeq(SplitSpace(s), LAMBDA piece : piece # <<>>)

CountSpaces(s) == Len(SelectSeq(s, LAMBDA ch : ch = " "))

\* the categories field of the source line a frame row comes from
FieldOf(row) == source[row.label + 1].categories

\* C7 (as claimed): the Category batch has as many rows as the surviving
\* records have tags when their category field is split on whitespace.
C7_WhitespaceCount ==
    pc = "writeDocs" =>
        Len(categoriesDF) =
            Sum([i \in 1..Len(df) |-> Len(SplitWhitespace(FieldOf(df[i])))],
                Len(df))

\* C7 (amended): the Category batch has as many rows as the surviving
\* records have pieces when their category field is split at every single
\* space, that is one more than the number of spaces of each field; two
\* adjacent spaces give an empty piece, which is a row too.
C7_SingleSpaceCount ==
    pc = "writeDocs" =>
        Len(categoriesDF) =
            Sum([i \in 1..Len(df) |-> CountSpaces(FieldOf(df[i])) + 1], Len(df))

C7_Witness ==
    /\ pc = "writeDocs"
    /\ Len(df) = 2
    /\ \E i \in 1..Len(df) : FieldOf(df[i]) = <<"x", " ", " ", "y">>
    /\ Len(categoriesDF) = 4

DistinctIds(file) == \A i, j \in 1..Len(file) : file[i].id = file[j].id => i = j

\* the id of the record owning each tag, in source order
TagOwners(file) ==
    LET F[i \in 0..Len(file)] ==
            IF i = 0 THEN <<>>
            ELSE F[i - 1] \o [ j \in 1..Len(SplitWhitespace(file[i].categories))
                                 |-> file[i].id ]
    IN F[Len(file)]

\* C8: for records with pairwise distinct ids loaded into a fresh store, the
\* k-th tag in source order, counting from 1, is the Category row with
\* surrogate id k and the arxiv_id of its record, for every batch size.
C8_SequentialFromOne ==
    (run = 1 /\ pc = "done" /\ DistinctIds(source)) =>
        /\ Len(Categories) = Len(TagOwners(source))
        /\ \A k \in 1..Len(Categories) :
              /\ Categories[k].id = k
              /\ Categories[k].arxiv_id = TagOwners(source)[k]

\* C9: a batch whose records are all filtered out yields empty Document and
\* Category batches, adds nothing to either relation and leaves the
\* surrogate-key offset as it was.
C9_EmptyBatchKeepsOffset ==
    [][ (pc = "update" /\ df = <<>>) =>
            /\ categoriesDF = <<>>
            /\ store = lastCall.before
            /\ store' = store
            /\ previousCategoriesDFMaxIndex' = previousCategoriesDFMaxIndex ]_vars

\* C10: the Document batch of a batch is written, successfully, before its
\* Category batch: documents change only in the Document write, categories
\* change only in the Category write that follows a Document write without
\* error, when every Document of the batch is stored, and a failed Document
\* write leaves categories alone and ends the run.
C10_DocumentsFirst ==
    [][ /\ Documents' # Documents => pc = "writeDocs"
        /\ Categories' # Categories =>
              /\ pc = "writeCats"
              /\ lastCall.table = "documents"
              /\ lastCall.err = NoError
              /\ \A i \in 1..Len(df) : df[i].id.text \in Keys(Documents)
        /\ pc' = "writeCats" => (pc = "writeDocs" /\ lastCall'.err = NoError)
        /\ (pc = "writeDocs" /\ lastCall'.err # NoError) =>
              (pc' = "aborted" /\ Categories' = Categories) ]_vars

C10_Witness ==
    /\ pc = "update"
    /\ bar >= 1
    /\ lastCall.table = "categories"
    /\ Len(Categories) > Len(lastCall.before.categories)
    /\ lastCall.before.categories # <<>>

BadArguments == ~inputExists \/ dbFile \/ chunkSize < 1

\* C11: with a missing input, an existing destination or a batch size below
\* 1 the run fails before any write: the step that checks the arguments
\* ends the run and leaves the destination file, its tables and its rows as
\* they were, and no chunk has been read or written when the run has failed.
C11_FailsBeforeAnyWrite ==
    [][ /\ (pc = "start" /\ BadArguments) =>
              /\ pc' = "aborted"
              /\ err' \in {"FileNotFoundError", "FileExistsError", "ValueError"}
              /\ UNCHANGED << dbFile, tables, store >>
              /\ nrowsSeen' = 0 /\ bar' = 0 /\ lastCall' = NoCall
        /\ (pc = "aborted"
              /\ err \in {"FileNotFoundError", "FileExistsError", "ValueError"}) =>
              UNCHANGED << dbFile, tables, store >> ]_vars

C11_Witness ==
    /\ pc = "aborted"
    /\ err = "ValueError"
    /\ inputExists
    /\ chunkSize < 1
    /\ ~dbFile
    /\ tables = {}

C12_Inv ==
    (run = 1 /\ inputExists /\ chunkSize >= 1 /\ source = <<>>) =>
        /\ pc # "aborted"
        /\ err = NoError
        /\ store = EmptyStore
        /\ pc = "done" => (dbFile /\ tables = TableNames)

\* C12: a run over an input with zero records reaches Done without error
\* and leaves a store whose two relations exist and are empty.
C12_EmptyInput ==
    /\ []C12_Inv
    /\ (pc = "start" /\ run = 1 /\ inputExists /\ chunkSize >= 1
           /\ source = <<>>)
          ~> (pc = "done" /\ run = 1 /\ tables = TableNames
                 /\ store = EmptyStore)

C12_Witness ==
    /\ pc = "done"
    /\ run = 1
    /\ source = <<>>
    /\ tables = TableNames
    /\ dbFile
    /\ store = EmptyStore
    /\ iterationCount = 0

\* ---- schema harness: DB objects and createTables on a store that exists
\* DB(dbPath=...): a new object with an empty MetaData, bound to the store
NewDB ==
    /\ pc = "harness"
    /\ metadata # {}
    /\ metadata' = {}
    /\ UNCHANGED << inputs, dbFile, tables, store, pc, run, err, locals,
                    lastCall, prev, calls >>

\* db.createTables() on the current object
CallCreateTables ==
    /\ pc = "harness"
    /\ calls < MaxCalls
    /\ LET r == DefineTables(metadata)
       IN /\ err' = r.err
          /\ metadata' = r.metadata
          /\ lastCall' = [table |-> "createTables", before |-> store,
                          err |-> r.err, attempts |-> <<>>]
          /\ IF r.err = NoError
             THEN /\ store' = createTables(tables, store)
                  /\ tables' = TableNames
                  /\ dbFile' = TRUE
             ELSE UNCHANGED << store, tables, dbFile >>
    /\ calls' = calls + 1
    /\ UNCHANGED << inputs, pc, run, locals, prev >>

NextDB ==
    \/ NewDB
    \/ CallCreateTables
    \/ AppendDocuments
    \/ AppendCategories

\* starts where db = DB(...); db.createTables() has returned
SpecDB == InitToSQL /\ [][NextDB]_vars

\* C13: createTables invoked again on an initialized store, on the same DB
\* object or on a new one, succeeds and changes neither tables nor rows.
C13_EnsureSchemaIdempotent ==
    lastCall.table = "createTables" =>
        /\ lastCall.err = NoError
        /\ store = lastCall.before
        /\ tables = TableNames

\* the ids held by uniqueIDs (the values of the dict)
SeenTexts == { uniqueIDs[l].text : l \in DOMAIN uniqueIDs }

\* C14: after each batch the seen-set is the previous seen-set plus the ids
\* of the batch's survivors, and the records of the next batch are filtered
\* against this set of ids.
C14_SeenSetFilters ==
    [][ /\ pc = "update" =>
              SeenTexts' = SeenTexts \cup { df[i].id.text : i \in 1..Len(df) }
        /\ (pc = "loop" /\ pc' = "transform") =>
              LET raw == ReadChunk(source, nrowsSeen, chunkSize)
              IN df' = SelectIdx(raw, LAMBDA i : raw[i].id.text \notin SeenTexts)
      ]_vars

\* the relation a successful append is claimed to leave: the relation before
\* plus the rows of the batch whose key was not there, with all their columns
ExpectedAppend(table, batch, before) ==
    before[table] \o
        SelectSeq(SqlRows(table, batch, table = "categories"),
                  LAMBDA row : row.id \notin Keys(before[table]))

\* C15: when toSQL returns without error, for documents and for categories
\* alike, the relation is the relation before plus exactly the rows of the
\* batch whose primary key was not present, stored with all their columns
\* (a Category row with the surrogate id the transformer gave it).
C15_AppendAddsNewRows ==
    /\ (pc = "writeCats" /\ lastCall.table = "documents") =>
          Documents = ExpectedAppend("documents", df, lastCall.before)
    /\ (pc = "update" /\ lastCall.table = "categories") =>
          Categories = ExpectedAppend("categories", categoriesDF, lastCall.before)

\* the positions main passes through, in order
LinearSteps ==
    { <<"start", "scan">>, <<"scan", "loop">>, <<"loop", "transform">>,
      <<"transform", "writeDocs">>, <<"writeDocs", "writeCats">>,
      <<"writeCats", "update">>, <<"update", "loop">>, <<"loop", "done">> }

AbortSteps ==
    { <<"start", "aborted">>, <<"writeDocs", "aborted">>,
      <<"writeCats", "aborted">> }

\* C16: main moves linearly from initializing through scanning and the
\* batches to done; a failure other than the first primary-key conflict of
\* an append ends the run where it occurs: the failed batch advances neither
\* the seen-set nor the offset, and after the abort nothing is transformed
\* or written any more (only a new invocation can follow).
C16_LinearAbort ==
    [][ /\ pc' # pc =>
              \/ <<pc, pc'>> \in LinearSteps \cup AbortSteps
              \/ (pc \in {"done", "aborted"} /\ pc' = "start" /\ run' = run + 1)
        /\ pc' = "aborted" =>
              /\ err' # NoError
              /\ UNCHANGED << uniqueIDs, previousCategoriesDFMaxIndex, bar,
                              nrowsSeen >>
        /\ (pc \in {"writeDocs", "writeCats"} /\ lastCall'.err # NoError) =>
              (pc' = "aborted" /\ err' = lastCall'.err /\ store' = store)
        /\ (pc = "writeDocs" /\ lastCall'.attempts = <<"conflict", "ok">>) =>
              pc' = "writeCats"
        /\ pc = "aborted" =>
              UNCHANGED << store, tables, dbFile >> ]_vars

C16_Witness ==
    /\ pc = "aborted"
    /\ err = "IntegrityError"
    /\ lastCall.table = "documents"
    /\ bar >= 1
    /\ nrowsSeen < Len(source)
    /\ Len(Documents) = bar

Min(a, b) == IF a <= b THEN a ELSE b

InBatch == pc \in {"transform", "writeDocs", "writeCats", "update"}

\* the reader has handed out exactly the first k batches, each once
ConsumedBatches(k) == nrowsSeen = Min(k * chunkSize, Len(source))

C17_Inv ==
    /\ pc = "loop" => ConsumedBatches(bar)
    /\ InBatch => (bar * chunkSize < Len(source) /\ ConsumedBatches(bar + 1))
    /\ pc = "done" =>
          /\ nrowsSeen = Len(source)
          /\ bar = iterationCount
          /\ bar * chunkSize >= Len(source)
          /\ bar > 0 => (bar - 1) * chunkSize < Len(source)
    /\ \A i, j \in 1..Len(Documents) :
          i < j => Documents[i].title < Documents[j].title

\* C17: every run over a finite source ends, in done or in an aborted
\* state; a run that reaches done has taken every batch of the reader
\* exactly once and in source order (batch k starts at line k * chunkSize,
\* the progress count equals the number of batches, stored Documents follow
\* the order of the source lines).
C17_TerminatesInOrder ==
    /\ []C17_Inv
    /\ (pc = "start") ~> (pc \in {"done", "aborted"})

C17_Witness ==
    /\ pc = "done"
    /\ bar >= 2
    /\ Len(source) > chunkSize
    /\ Len(Documents) >= 2

\* the batch handed to the Document append holds an id twice, and that id
\* was not stored before the append
BatchRepeatsNewId ==
    /\ lastCall.table = "documents"
    /\ \E i, j \in 1..Len(df) :
          /\ i # j
          /\ df[i].id = df[j].id
          /\ df[i].id.text \notin Keys(lastCall.before.documents)

\* C18: when a batch holds two surviving records with the same id and that
\* id is not yet a Document, the Document append conflicts on the first
\* attempt and again on the retry, the run aborts with the conflict error,
\* and neither a Document row nor a Category row of the batch is stored.
C18_InBatchDuplicateAborts ==
    BatchRepeatsNewId =>
        /\ lastCall.attempts = <<"conflict", "conflict">>
        /\ lastCall.err = "IntegrityError"
        /\ pc = "aborted"
        /\ err = "IntegrityError"
        /\ store = lastCall.before

C18_Witness ==
    /\ BatchRepeatsNewId
    /\ pc = "aborted"
    /\ Len(df) = 2
    /\ lastCall.attempts = <<"conflict", "conflict">>
    /\ Documents = <<>>
    /\ Categories = <<>>

====
